---- MODULE Spec2Model ----
(***************************************************************************)
(* A model of the imigrate migration engine (imigrate.go): the registry    *)
(* built by setup, the tracking table behind the Executor, the operations  *)
(* Up, Down, Redo, Rollback and Status, the migration file parser          *)
(* Migration.Valid, and the command line front end CLI (cli.go).           *)
(***************************************************************************)
EXTENDS Integers, Sequences, FiniteSets, TLC

\* ------------------------------------------------------------------ bounds

\* Directory listings hold at most MaxFiles entries.
MaxFiles == 3
\* A failing executor fails during one of the first MaxFaultAt migration executions of a call.
MaxFaultAt == 2
\* A migration file holds at most MaxLines lines.
MaxLines == 4
\* A command line holds at most MaxArgs arguments after the command word.
MaxArgs == 2

\* The versions (the leading digits of a file name) the listings draw from: three
\* values give every order of MaxFiles files, ties included.
Versions == {1, 2, 3}
\* steps: -1 is "no cap"; 0..MaxFiles covers fewer than, as many as and more than the
\* eligible migrations.
StepsRange == -1..MaxFiles
\* The (steps, version) pairs of a call: every steps with version 0 (not targeted), and
\* the steps -1 (the default of up and down), 0 and 1 (the default of redo) with each
\* version.
Args == (StepsRange \X {0}) \cup ({-1, 0, 1} \X Versions)

VARIABLES
    dir,        \* the directory listing, in Readdir order: a sequence of entries
    Migrations, \* IMigrator.Migrations: the registry, a sequence of Migration records
    setupDone,  \* IMigrator.setupDone
    table,      \* the rows of the tracking table behind the Executor: a set of versions
    call,       \* the call that has just run and not yet returned ("idle" between calls)
    pre,        \* the tracking table as it was when that call started
    log,        \* the Executor statements that call ran successfully, in order
    out,        \* the lines Status printed during that call
    panicked,   \* the call ended in Logger.Panicln
    schema,     \* the versions whose up-SQL is in effect in the database
    preSchema,  \* schema as it was when that call started
    setupRan,   \* a run of setup on this engine got to its end (no panic)
    preSetup,   \* setupRan, setupDone and the registry's members when that call started
    file,       \* parser: the file being read, [lines, eofNL]
    pos,        \* parser: the number of ReadString calls made so far
    upStart,    \* parser: Valid's upStart
    dnStart,    \* parser: Valid's dnStart
    UpSQL,      \* parser: Migration.Up, as the sequence of the lines appended
    DnSQL,      \* parser: Migration.Dn, as the sequence of the lines appended
    valid,      \* parser: Valid's result
    pc,         \* parser: "read" while the loop runs, "done" after the break
    osArgs,     \* CLI: os.Args[1:], the command line after the program name
    invoked,    \* CLI: the Migrator methods CLI has called, with their arguments
    exit        \* CLI: "run" before CLI, then "return", "fatal" (log.Fatal) or "flag"

engineVars == <<dir, Migrations, setupDone, table, call, pre, log, out, panicked,
                schema, preSchema, setupRan, preSetup>>
parserVars == <<file, pos, upStart, dnStart, UpSQL, DnSQL, valid, pc>>
cliVars == <<osArgs, invoked, exit>>
vars == <<dir, Migrations, setupDone, table, call, pre, log, out, panicked,
          schema, preSchema, setupRan, preSetup,
          file, pos, upStart, dnStart, UpSQL, DnSQL, valid, pc,
          osArgs, invoked, exit>>

\* ------------------------------------------------------------- the executor

\* No statement of the call fails.
NoFault == [at |-> 0, kind |-> "none"]
\* The at-th migration execution of the call fails: at its SQL ("sql"), at reading the
\* result handle of its SQL ("sqlid"), at the tracking-row statement ("track") or at
\* reading that statement's result handle ("trackid").
Faults == {NoFault} \cup [at : 1..MaxFaultAt, kind : {"sql", "sqlid", "track", "trackid"}]

\* A sequence of the elements of the set S of integers, ascending.
RECURSIVE Ascending(_)
Ascending(S) ==
    IF S = {} THEN <<>>
    ELSE LET lo == CHOOSE x \in S : \A y \in S : x <= y
         IN <<lo>> \o Ascending(S \ {lo})

getCompletedVersions(e) == Ascending(e.tbl)

\* migrated with a return inside the loop: only the first completed version is compared.
migratedFirstOnly(e, m) ==
    LET versions == getCompletedVersions(e)
    IN versions # <<>> /\ versions[1] = m.Version

migrated(e, m) ==
    LET versions == getCompletedVersions(e)
    IN \E i \in DOMAIN versions : versions[i] = m.Version

Event(op, ver, f) == [op |-> op, ver |-> ver, file |-> f]

\* No other process writes the tracking table during the call.
NoExt == [at |-> 0, phase |-> "none", op |-> "none", ver |-> 0]

\* Another process writes the tracking table while a pass is at its i-th migration:
\* before the pass checks the migration (phase "check") or between that check and the
\* migration's execution (phase "exec"). The write of e.ext happens once.
External(e, i, phase) ==
    IF e.ext.at = i /\ e.ext.phase = phase
    THEN [e EXCEPT !.tbl = IF e.ext.op = "insert" THEN @ \cup {e.ext.ver}
                           ELSE @ \ {e.ext.ver},
                   !.log = Append(@, Event(IF e.ext.op = "insert" THEN "xinsert"
                                           ELSE "xdelete", e.ext.ver, i)),
                   !.ext = NoExt]
    ELSE e

Panic(e) == [e EXCEPT !.panic = TRUE]

\* Execute inside a transaction: a failure after the SQL undoes the SQL.
ExecuteInTransaction(e, m, sqlOp, rowOp, rows, rowOk) ==
    LET n == e.n + 1
        hit(kind) == e.fault.at = n /\ e.fault.kind = kind
        e0 == [e EXCEPT !.n = n]
        e1 == [e0 EXCEPT !.log = Append(@, Event(sqlOp, m.Version, m.FileInfo)),
                         !.sch = IF sqlOp = "up" THEN @ \cup {m.Version}
                                 ELSE @ \ {m.Version}]
        e2 == [e1 EXCEPT !.tbl = rows, !.log = Append(@, Event(rowOp, m.Version, 0))]
    IN IF hit("sql") \/ hit("sqlid") \/ hit("track") \/ ~rowOk \/ hit("trackid")
       THEN Panic(e0)
       ELSE e2

\* One migration execution: the migration's SQL, then the tracking-row statement.
\* sqlOp/rowOp name the two statements, rows is the table after the row statement, and
\* rowOk says whether the table accepts it (the version column is the primary key).
\* The SQL takes effect when it runs (sch): no transaction spans the two statements.
Execute(e, m, sqlOp, rowOp, rows, rowOk) ==
    LET n == e.n + 1
        hit(kind) == e.fault.at = n /\ e.fault.kind = kind
        e0 == [e EXCEPT !.n = n]
        e1 == [e0 EXCEPT !.log = Append(@, Event(sqlOp, m.Version, m.FileInfo)),
                         !.sch = IF sqlOp = "up" THEN @ \cup {m.Version}
                                 ELSE @ \ {m.Version}]
        e2 == [e1 EXCEPT !.tbl = rows, !.log = Append(@, Event(rowOp, m.Version, 0))]
    IN IF hit("sql") THEN Panic(e0)
       ELSE IF hit("sqlid") THEN Panic(e1)
       ELSE IF hit("track") \/ ~rowOk THEN Panic(e1)
       ELSE IF hit("trackid") THEN Panic(e2)
       ELSE e2

execUp(e, m) ==
    Execute(e, m, "up", "insert", e.tbl \cup {m.Version}, m.Version \notin e.tbl)

\* execDown whose DELETE removes no row.
execDownKeepsRow(e, m) ==
    Execute(e, m, "dn", "delete", e.tbl, TRUE)

execDown(e, m) ==
    Execute(e, m, "dn", "delete", e.tbl \ {m.Version}, TRUE)

\* -------------------------------------------------------- the file parser

\* The lines a file is made of, by what the two marker patterns make of them: "U"
\* matches UpKey only, "D" matches DnKey only, "B" matches both, "a" and "b" match neither.
LineTexts == {"U", "D", "B", "a", "b"}

UpKeyMatch(l) == l \in {"U", "B"}

DnKeyMatch(l) == l \in {"D", "B"}

\* reader.ReadString('\n'), the n-th call on f: a line with its newline and no error, or
\* what is left before the end of the file ("" or an unterminated last line) with io.EOF.
ReadString(f, n) ==
    IF f.errAt = n THEN [l |-> "", err |-> "error"]
    ELSE IF n < Len(f.lines) \/ (n = Len(f.lines) /\ f.eofNL)
         THEN [l |-> f.lines[n], err |-> "nil"]
    ELSE IF n = Len(f.lines) THEN [l |-> f.lines[n], err |-> "EOF"]
    ELSE [l |-> "", err |-> "EOF"]

\* Valid's locals and results before the first read.
ValidStart ==
    [pos |-> 0, upStart |-> FALSE, dnStart |-> FALSE, Up |-> <<>>, Dn |-> <<>>,
     valid |-> FALSE, pc |-> "read"]

\* The loop of Valid with a down marker accepted before the up marker.
ValidLoopAnyOrder(f, s) ==
    LET r == ReadString(f, s.pos + 1)
        s1 == [s EXCEPT !.pos = @ + 1]
    IN IF r.err # "nil"
       THEN [s1 EXCEPT !.valid = IF r.err = "EOF" THEN s.upStart /\ s.dnStart ELSE @,
                       !.pc = "done"]
       ELSE IF ~s.upStart /\ UpKeyMatch(r.l) THEN [s1 EXCEPT !.upStart = TRUE]
       ELSE IF ~s.dnStart /\ DnKeyMatch(r.l) THEN [s1 EXCEPT !.dnStart = TRUE]
       ELSE [s1 EXCEPT !.Up = IF s.upStart /\ ~s.dnStart THEN Append(@, r.l) ELSE @,
                       !.Dn = IF s.dnStart THEN Append(@, r.l) ELSE @]

\* The loop of Valid without its two continue statements: a marker line goes on to the
\* tests that follow.
ValidLoopFallsThrough(f, s) ==
    LET r == ReadString(f, s.pos + 1)
        s1 == [s EXCEPT !.pos = @ + 1]
        s2 == IF ~s1.upStart /\ UpKeyMatch(r.l) THEN [s1 EXCEPT !.upStart = TRUE] ELSE s1
        s3 == IF s2.upStart /\ ~s2.dnStart /\ DnKeyMatch(r.l)
              THEN [s2 EXCEPT !.dnStart = TRUE] ELSE s2
    IN IF r.err # "nil"
       THEN [s1 EXCEPT !.valid = IF r.err = "EOF" THEN s.upStart /\ s.dnStart ELSE @,
                       !.pc = "done"]
       ELSE [s3 EXCEPT !.Up = IF s3.upStart /\ ~s3.dnStart THEN Append(@, r.l) ELSE @,
                       !.Dn = IF s3.dnStart THEN Append(@, r.l) ELSE @]

\* One iteration of the loop of Valid on the file f, from the locals s.
ValidLoop(f, s) ==
    LET r == ReadString(f, s.pos + 1)
        s1 == [s EXCEPT !.pos = @ + 1]
    IN IF r.err # "nil"
       THEN [s1 EXCEPT !.valid = IF r.err = "EOF" THEN s.upStart /\ s.dnStart ELSE @,
                       !.pc = "done"]
       ELSE IF ~s.upStart /\ UpKeyMatch(r.l) THEN [s1 EXCEPT !.upStart = TRUE]
       ELSE IF s.upStart /\ ~s.dnStart /\ DnKeyMatch(r.l) THEN [s1 EXCEPT !.dnStart = TRUE]
       ELSE [s1 EXCEPT !.Up = IF s.upStart /\ ~s.dnStart THEN Append(@, r.l) ELSE @,
                       !.Dn = IF s.dnStart THEN Append(@, r.l) ELSE @]

\* The loop of Valid, run to its break.
RECURSIVE ValidRun(_, _)
ValidRun(f, s) == IF s.pc = "done" THEN s ELSE ValidRun(f, ValidLoop(f, s))

\* migration.Valid(f, UpKey, DnKey) as setup calls it: the result of a whole run.
ValidResult(f) == ValidRun(f, ValidStart).valid

\* ------------------------------------------------------------------- setup

\* A migration file as Create lays it out and the tests write it: the up marker, the up
\* SQL, the down marker, the down SQL.
GoodFile == [lines |-> <<"U", "a", "D", "b">>, eofNL |-> TRUE, errAt |-> 0]

\* A directory entry: whether its name starts with digits that ParseInt accepts
\* (numeric) and their value (ver), whether FS.Open succeeds on it (opens), and the
\* file it holds (content).
DirEntry(numeric, v, opens, f) ==
    [numeric |-> numeric, ver |-> v, opens |-> opens, content |-> f]

\* The directory entries of the engine's specification: openable files with a numeric
\* prefix and both markers.
Entry(v) == DirEntry(TRUE, v, TRUE, GoodFile)

Migration(d, i) == [Version |-> d[i].ver, FileInfo |-> i]

createTable(e) == [e EXCEPT !.log = Append(@, Event("create", 0, 0))]

\* The loop of setup with a return where the code has continue.
RECURSIVE scanStopsAtBadEntry(_, _, _)
scanStopsAtBadEntry(e, d, i) ==
    IF i > Len(d) THEN e
    ELSE IF ~d[i].numeric THEN e
    ELSE IF ~d[i].opens THEN e
    ELSE LET e1 == IF ValidResult(d[i].content)
                   THEN [e EXCEPT !.M = Append(@, Migration(d, i))]
                   ELSE e
         IN scanStopsAtBadEntry([e1 EXCEPT !.done = TRUE], d, i + 1)

\* The loop of setup with the latch set only for a valid file.
RECURSIVE scanLatchOnValid(_, _, _)
scanLatchOnValid(e, d, i) ==
    IF i > Len(d) THEN e
    ELSE IF ~d[i].numeric THEN scanLatchOnValid(e, d, i + 1)
    ELSE IF ~d[i].opens THEN scanLatchOnValid(e, d, i + 1)
    ELSE LET e1 == IF ValidResult(d[i].content)
                   THEN [e EXCEPT !.M = Append(@, Migration(d, i)), !.done = TRUE]
                   ELSE e
         IN scanLatchOnValid(e1, d, i + 1)

\* The loop of setup without the assignment to setupDone.
RECURSIVE scanNoLatch(_, _, _)
scanNoLatch(e, d, i) ==
    IF i > Len(d) THEN e
    ELSE IF ~d[i].numeric THEN scanNoLatch(e, d, i + 1)
    ELSE IF ~d[i].opens THEN scanNoLatch(e, d, i + 1)
    ELSE LET e1 == IF ValidResult(d[i].content)
                   THEN [e EXCEPT !.M = Append(@, Migration(d, i))]
                   ELSE e
         IN scanNoLatch(e1, d, i + 1)

\* The loop of setup over the listing d, from entry i on.
RECURSIVE scan(_, _, _)
scan(e, d, i) ==
    IF i > Len(d) THEN e
    ELSE IF ~d[i].numeric THEN scan(e, d, i + 1)
    ELSE IF ~d[i].opens THEN scan(e, d, i + 1)
    ELSE LET e1 == IF ValidResult(d[i].content)
                   THEN [e EXCEPT !.M = Append(@, Migration(d, i))]
                   ELSE e
         IN scan([e1 EXCEPT !.done = TRUE], d, i + 1)

\* The executor or the file system fails setup: at the create-table statement
\* ("create"), at opening the directory ("opendir") or at listing it ("readdir").
SetupFaults == [at : {0}, kind : {"create", "opendir", "readdir"}]

setup(e, d) ==
    IF e.done THEN e
    ELSE IF e.fault.kind = "create" THEN Panic(e)
    ELSE IF e.fault.kind \in {"opendir", "readdir"} THEN Panic(createTable(e))
    ELSE [scan(createTable(e), d, 1) EXCEPT !.ran = TRUE]

\* ----------------------------------------------------------------- ordering

\* less of sortAscending (asc) and of sortDescending (~asc).
less(asc, a, b) == IF asc THEN a.Version < b.Version ELSE a.Version > b.Version

\* The orders sort.Slice can leave the migrations M[i], i \in I, in: no migration comes
\* after one it is less than; migrations of equal version come in any order (sort.Slice
\* is not stable).
RECURSIVE Sorted(_, _, _)
Sorted(M, I, asc) ==
    IF I = {} THEN {<<>>}
    ELSE LET first == {i \in I : \A j \in I : ~less(asc, M[j], M[i])}
         IN UNION {{<<M[i]>> \o rest : rest \in Sorted(M, I \ {i}, asc)} : i \in first}

\* sortAscending that leaves the registry as it is.
sortAscendingNoSort(e) == {e}

sortAscending(e) == {[e EXCEPT !.M = s] : s \in Sorted(e.M, DOMAIN e.M, TRUE)}

\* sortDescending with sortAscending's comparison.
sortDescendingFlipped(e) == {[e EXCEPT !.M = s] : s \in Sorted(e.M, DOMAIN e.M, TRUE)}

sortDescending(e) == {[e EXCEPT !.M = s] : s \in Sorted(e.M, DOMAIN e.M, FALSE)}

\* --------------------------------------------------------------- operations

\* The first migration of M from position i on that upVersion/downVersion executes
\* (0 when there is none).
RECURSIVE upTarget(_, _, _)
upTarget(e, version, i) ==
    IF i > Len(e.M) THEN 0
    ELSE IF e.M[i].Version = version /\ ~migrated(e, e.M[i]) THEN i
    ELSE upTarget(e, version, i + 1)

upVersion(e, version) ==
    LET i == upTarget(e, version, 1)
    IN IF i = 0 THEN e ELSE execUp(e, e.M[i])

\* The loop of Up with the cap tested as completed >= steps: no cap (-1) stops at once.
RECURSIVE upLoopAtLeast(_, _, _, _)
upLoopAtLeast(e, steps, i, completed) ==
    IF i > Len(e.M) \/ e.panic THEN e
    ELSE IF completed >= steps THEN e
    ELSE LET e1 == External(e, i, "check")
         IN IF ~migrated(e1, e1.M[i])
            THEN upLoopAtLeast(execUp(External(e1, i, "exec"), e1.M[i]), steps, i + 1, completed + 1)
            ELSE upLoopAtLeast(e1, steps, i + 1, completed)

\* The loop of Up where a failed execution is logged and the loop goes on.
RECURSIVE upLoopNoAbort(_, _, _, _)
upLoopNoAbort(e, steps, i, completed) ==
    IF i > Len(e.M) THEN e
    ELSE IF completed = steps THEN e
    ELSE LET e1 == External(e, i, "check")
         IN IF ~migrated(e1, e1.M[i])
            THEN upLoopNoAbort(execUp(External(e1, i, "exec"), e1.M[i]), steps, i + 1,
                               completed + 1)
            ELSE upLoopNoAbort(e1, steps, i + 1, completed)

\* The loop of Up over the completed versions it is given instead of those of the table.
RECURSIVE upLoopOver(_, _, _, _, _)
upLoopOver(e, steps, i, completed, versions) ==
    IF i > Len(e.M) \/ e.panic THEN e
    ELSE IF completed = steps THEN e
    ELSE LET e1 == External(e, i, "check")
         IN IF e1.M[i].Version \notin versions
            THEN upLoopOver(execUp(External(e1, i, "exec"), e1.M[i]), steps, i + 1,
                            completed + 1, versions)
            ELSE upLoopOver(e1, steps, i + 1, completed, versions)

\* The loop of Up with the completed versions fetched once, before the loop.
upLoopCached(e, steps, i, completed) == upLoopOver(e, steps, i, completed, e.tbl)

\* The loop of Up from position i on, with completed executions so far.
RECURSIVE upLoop(_, _, _, _)
upLoop(e, steps, i, completed) ==
    IF i > Len(e.M) \/ e.panic THEN e
    ELSE IF completed = steps THEN e
    ELSE LET e1 == External(e, i, "check")
         IN IF ~migrated(e1, e1.M[i])
            THEN upLoop(execUp(External(e1, i, "exec"), e1.M[i]), steps, i + 1, completed + 1)
            ELSE upLoop(e1, steps, i + 1, completed)

\* Up without the return after upVersion: the targeted call falls through to the loop.
UpNoReturn(e, d, steps, version) ==
    LET e1 == setup(e, d)
        e2 == IF version # 0 THEN upVersion(e1, version) ELSE e1
    IN IF e1.panic THEN {e1}
       ELSE {upLoop(s, steps, 1, 0) : s \in sortAscending(e2)}

\* Up, Down, Redo, Rollback and Status give the set of states the call can end in. A
\* panic in setup unwinds the call.
Up(e, d, steps, version) ==
    LET e1 == setup(e, d)
    IN IF e1.panic THEN {e1}
       ELSE IF version # 0 THEN {upVersion(e1, version)}
       ELSE {upLoop(s, steps, 1, 0) : s \in sortAscending(e1)}

RECURSIVE downTarget(_, _, _)
downTarget(e, version, i) ==
    IF i > Len(e.M) THEN 0
    ELSE IF e.M[i].Version = version /\ migrated(e, e.M[i]) THEN i
    ELSE downTarget(e, version, i + 1)

downVersion(e, version) ==
    LET i == downTarget(e, version, 1)
    IN IF i = 0 THEN e ELSE execDown(e, e.M[i])

\* The loop of Down where a failed execution is logged and the loop goes on.
RECURSIVE downLoopNoAbort(_, _, _, _)
downLoopNoAbort(e, steps, i, completed) ==
    IF i > Len(e.M) THEN e
    ELSE IF completed = steps THEN e
    ELSE LET e1 == External(e, i, "check")
         IN IF migrated(e1, e1.M[i])
            THEN downLoopNoAbort(execDown(External(e1, i, "exec"), e1.M[i]), steps, i + 1,
                                 completed + 1)
            ELSE downLoopNoAbort(e1, steps, i + 1, completed)

RECURSIVE downLoop(_, _, _, _)
downLoop(e, steps, i, completed) ==
    IF i > Len(e.M) \/ e.panic THEN e
    ELSE IF completed = steps THEN e
    ELSE LET e1 == External(e, i, "check")
         IN IF migrated(e1, e1.M[i])
            THEN downLoop(execDown(External(e1, i, "exec"), e1.M[i]), steps, i + 1, completed + 1)
            ELSE downLoop(e1, steps, i + 1, completed)

Down(e, d, steps, version) ==
    LET e1 == setup(e, d)
    IN IF e1.panic THEN {e1}
       ELSE IF version # 0 THEN {downVersion(e1, version)}
       ELSE {downLoop(s, steps, 1, 0) : s \in sortDescending(e1)}

\* Redo with the two calls swapped.
RedoUpFirst(e, d, steps, version) ==
    UNION {IF e1.panic THEN {e1} ELSE Down(e1, d, steps, version)
           : e1 \in Up(e, d, steps, version)}

\* A panic in Down unwinds Redo: Up is not called.
Redo(e, d, steps, version) ==
    UNION {IF e1.panic THEN {e1} ELSE Up(e1, d, steps, version)
           : e1 \in Down(e, d, steps, version)}

Rollback(e, d, steps) == Down(e, d, steps, 0)

Line(what, ver) == [what |-> what, ver |-> ver]

RECURSIVE pendingLoop(_, _)
pendingLoop(e, i) ==
    IF i > Len(e.M) THEN e
    ELSE LET e1 == External(e, i, "check")
         IN IF ~migrated(e1, e1.M[i])
            THEN pendingLoop([e1 EXCEPT !.out = Append(@, Line("Pending", e1.M[i].Version))],
                             i + 1)
            ELSE pendingLoop(e1, i + 1)

\* pending without the sort.
pendingNoSort(e) == {pendingLoop(e, 1)}

pending(e) == {pendingLoop(s, 1) : s \in sortAscending(e)}

Status(e, d) ==
    LET e1 == setup(e, d)
        versions == getCompletedVersions(e1)
        e2 == [e1 EXCEPT !.out = [i \in DOMAIN versions |-> Line("Completed", versions[i])]]
    IN IF e1.panic THEN {e1} ELSE pending(e2)

\* ------------------------------------------------------------ the engine

\* What a call finds of earlier setup runs: whether one got to its end, the latch, and
\* the members of the registry.
Found(ran, done, M) == [ran |-> ran, done |-> done, M |-> {M[i] : i \in DOMAIN M}]

Idle == [op |-> "idle", steps |-> 0, version |-> 0, fault |-> NoFault, ext |-> NoExt]

\* The engine and its database as a call finds them, with the fault the executor will
\* raise during the call.
Engine(fault) ==
    [M |-> Migrations, done |-> setupDone, ran |-> setupRan, tbl |-> table, sch |-> schema,
     log |-> <<>>, out |-> <<>>, panic |-> FALSE, n |-> 0, fault |-> fault,
     ext |-> NoExt]

\* The state after a call c that ends in e.
Ends(c, e) ==
    /\ call' = c
    /\ pre' = table
    /\ Migrations' = e.M
    /\ setupDone' = e.done
    /\ table' = e.tbl
    /\ log' = e.log
    /\ out' = e.out
    /\ panicked' = e.panic
    /\ schema' = e.sch
    /\ preSchema' = schema
    /\ setupRan' = e.ran
    /\ preSetup' = Found(setupRan, setupDone, Migrations)
    /\ UNCHANGED <<dir, parserVars, cliVars>>

Call(op, steps, version, fault) ==
    [op |-> op, steps |-> steps, version |-> version, fault |-> fault, ext |-> NoExt]

CallUp(F) ==
    /\ call = Idle
    /\ \E a \in Args, fault \in F :
         \E e \in Up(Engine(fault), dir, a[1], a[2]) :
            Ends(Call("up", a[1], a[2], fault), e)

CallDown(F) ==
    /\ call = Idle
    /\ \E a \in Args, fault \in F :
         \E e \in Down(Engine(fault), dir, a[1], a[2]) :
            Ends(Call("down", a[1], a[2], fault), e)

CallRedo(F) ==
    /\ call = Idle
    /\ \E a \in Args, fault \in F :
         \E e \in Redo(Engine(fault), dir, a[1], a[2]) :
            Ends(Call("redo", a[1], a[2], fault), e)

CallRollback(F) ==
    /\ call = Idle
    /\ \E steps \in StepsRange, fault \in F :
         \E e \in Rollback(Engine(fault), dir, steps) :
            Ends(Call("rollback", steps, 0, fault), e)

CallStatus ==
    /\ call = Idle
    /\ \E e \in Status(Engine(NoFault), dir) :
            Ends(Call("status", 0, 0, NoFault), e)

\* TestIMigrateUpDown and TestIMigrateUp: Up(-1, 0) and then Down(-1, 0) on one engine.
UpDown(e, d) ==
    UNION {IF e1.panic THEN {e1} ELSE Down(e1, d, -1, 0) : e1 \in Up(e, d, -1, 0)}

CallUpDown(F) ==
    /\ call = Idle
    /\ \E fault \in F :
         \E e \in UpDown(Engine(fault), dir) :
            Ends(Call("updown", -1, 0, fault), e)

\* The call returns to its caller.
Return ==
    /\ call # Idle
    /\ ~panicked
    /\ call' = Idle
    /\ pre' = {}
    /\ log' = <<>>
    /\ out' = <<>>
    /\ preSchema' = {}
    /\ preSetup' = Found(FALSE, FALSE, <<>>)
    /\ UNCHANGED <<dir, Migrations, setupDone, table, panicked, schema, setupRan,
                   parserVars, cliVars>>

\* The process ends (after a panic it must) and a new one builds a fresh engine over the
\* same database and directory.
NewIMigrator ==
    /\ call = Idle \/ panicked
    /\ call' = Idle
    /\ pre' = {}
    /\ log' = <<>>
    /\ out' = <<>>
    /\ panicked' = FALSE
    /\ Migrations' = <<>>
    /\ setupDone' = FALSE
    /\ preSchema' = {}
    /\ setupRan' = FALSE
    /\ preSetup' = Found(FALSE, FALSE, <<>>)
    /\ UNCHANGED <<dir, table, schema, parserVars, cliVars>>

Listings == UNION {[1..n -> {Entry(v) : v \in Versions}] : n \in 0..MaxFiles}

ParserIdle ==
    /\ file = [lines |-> <<>>, eofNL |-> TRUE, errAt |-> 0]
    /\ pos = 0
    /\ upStart = FALSE
    /\ dnStart = FALSE
    /\ UpSQL = <<>>
    /\ DnSQL = <<>>
    /\ valid = FALSE
    /\ pc = "done"

CLIIdle ==
    /\ osArgs = <<>>
    /\ invoked = <<>>
    /\ exit = "return"

Init ==
    /\ dir \in Listings
    /\ Migrations = <<>>
    /\ setupDone = FALSE
    /\ table \in SUBSET Versions
    /\ call = Idle
    /\ pre = {}
    /\ log = <<>>
    /\ out = <<>>
    /\ panicked = FALSE
    /\ schema = table
    /\ preSchema = {}
    /\ setupRan = FALSE
    /\ preSetup = Found(FALSE, FALSE, <<>>)
    /\ ParserIdle
    /\ CLIIdle

Next ==
    \/ CallUp({NoFault})
    \/ CallDown({NoFault})
    \/ CallRedo({NoFault})
    \/ CallRollback({NoFault})
    \/ CallUpDown({NoFault})
    \/ CallStatus
    \/ Return
    \/ NewIMigrator

Spec == Init /\ [][Next]_vars

\* The engine over a failing executor, over directories whose files have distinct
\* versions (what the registry is expected to hold).
DistinctListings ==
    {d \in Listings : \A i, j \in DOMAIN d : i # j => d[i].ver # d[j].ver}

InitFault ==
    /\ dir \in DistinctListings
    /\ Migrations = <<>>
    /\ setupDone = FALSE
    /\ table \in SUBSET Versions
    /\ call = Idle
    /\ pre = {}
    /\ log = <<>>
    /\ out = <<>>
    /\ panicked = FALSE
    /\ schema = table
    /\ preSchema = {}
    /\ setupRan = FALSE
    /\ preSetup = Found(FALSE, FALSE, <<>>)
    /\ ParserIdle
    /\ CLIIdle

NextFault ==
    \/ CallUp(Faults)
    \/ CallDown(Faults)
    \/ CallRedo(Faults)
    \/ CallRollback(Faults)
    \/ CallUpDown(Faults)
    \/ CallStatus
    \/ Return
    \/ NewIMigrator

SpecFault == InitFault /\ [][NextFault]_vars

\* --------------------------------------------------- setup over any directory

\* Files that hold both markers in order: GoodFile, and GoodFile without a newline after
\* its last line.
GoodFiles == {GoodFile, [GoodFile EXCEPT !.eofNL = FALSE]}

\* Files of the other kinds: empty, no marker, no down marker, no up marker, the only
\* down marker before the up marker, one line that matches both patterns, the down
\* marker as an unterminated last line, and GoodFile with a read that fails.
BadFiles ==
    {[lines |-> <<>>, eofNL |-> TRUE, errAt |-> 0],
     [lines |-> <<"a">>, eofNL |-> TRUE, errAt |-> 0],
     [lines |-> <<"U", "a">>, eofNL |-> TRUE, errAt |-> 0],
     [lines |-> <<"D", "b">>, eofNL |-> TRUE, errAt |-> 0],
     [lines |-> <<"D", "U", "a">>, eofNL |-> TRUE, errAt |-> 0],
     [lines |-> <<"B">>, eofNL |-> TRUE, errAt |-> 0],
     [lines |-> <<"U", "D">>, eofNL |-> FALSE, errAt |-> 0],
     [GoodFile EXCEPT !.errAt = 3]}

\* The entries a directory can hold: a name without leading digits, a file that cannot
\* be opened, and openable files with a numeric prefix of every content above.
ScanEntries ==
    {DirEntry(FALSE, 0, TRUE, GoodFile), DirEntry(TRUE, 3, FALSE, GoodFile)}
        \cup {DirEntry(TRUE, v, TRUE, f) : v \in {1, 2}, f \in GoodFiles}
        \cup {DirEntry(TRUE, 3, TRUE, f) : f \in BadFiles}

ScanListings == UNION {[1..n -> ScanEntries] : n \in 0..MaxFiles}

\* Status on an engine whose setup may fail.
CallStatusOver(F) ==
    /\ call = Idle
    /\ \E fault \in F :
         \E e \in Status(Engine(fault), dir) :
            Ends(Call("status", 0, 0, fault), e)

InitScan ==
    /\ dir \in ScanListings
    /\ Migrations = <<>>
    /\ setupDone = FALSE
    /\ table = {}
    /\ call = Idle
    /\ pre = {}
    /\ log = <<>>
    /\ out = <<>>
    /\ panicked = FALSE
    /\ schema = table
    /\ preSchema = {}
    /\ setupRan = FALSE
    /\ preSetup = Found(FALSE, FALSE, <<>>)
    /\ ParserIdle
    /\ CLIIdle

NextScan ==
    \/ CallStatusOver({NoFault} \cup SetupFaults)
    \/ Return
    \/ NewIMigrator

SpecScan == InitScan /\ [][NextScan]_vars

\* ------------------------------------------- setup over a changing directory

\* Two valid migration files, a file with a numeric prefix and no marker, a name without
\* leading digits and a file that cannot be opened.
SetupEntries ==
    {Entry(1), Entry(2),
     DirEntry(TRUE, 3, TRUE, [lines |-> <<"a">>, eofNL |-> TRUE, errAt |-> 0]),
     DirEntry(FALSE, 0, TRUE, GoodFile),
     DirEntry(TRUE, 3, FALSE, GoodFile)}

SetupListings == UNION {[1..n -> SetupEntries] : n \in 0..MaxFiles}

\* A file appears in the directory between two calls: Create writes a new migration
\* file, and anything else can write there too.
WriteFile ==
    /\ call = Idle
    /\ Len(dir) < MaxFiles
    /\ \E x \in SetupEntries : dir' = Append(dir, x)
    /\ UNCHANGED <<Migrations, setupDone, table, call, pre, log, out, panicked,
                   schema, preSchema, setupRan, preSetup, parserVars, cliVars>>

InitSetup ==
    /\ dir \in SetupListings
    /\ Migrations = <<>>
    /\ setupDone = FALSE
    /\ table = {}
    /\ call = Idle
    /\ pre = {}
    /\ log = <<>>
    /\ out = <<>>
    /\ panicked = FALSE
    /\ schema = table
    /\ preSchema = {}
    /\ setupRan = FALSE
    /\ preSetup = Found(FALSE, FALSE, <<>>)
    /\ ParserIdle
    /\ CLIIdle

NextSetup ==
    \/ CallStatusOver({NoFault} \cup SetupFaults)
    \/ CallUp({NoFault} \cup SetupFaults)
    \/ CallDown({NoFault} \cup SetupFaults)
    \/ WriteFile
    \/ Return
    \/ NewIMigrator

SpecSetup == InitSetup /\ [][NextSetup]_vars

\* ------------------------------------- passes with another writer of the table

\* The writes of another process during a pass: one INSERT or DELETE of a version.
ExtWrites == [at : 1..MaxFiles, phase : {"check", "exec"}, op : {"insert", "delete"},
              ver : Versions]

\* The engine as a call finds it, with the write x another process makes during the call.
EngineWith(x) == [Engine(NoFault) EXCEPT !.ext = x]

CallWith(op, steps, x) == [Call(op, steps, 0, NoFault) EXCEPT !.ext = x]

CallUpWith(X) ==
    /\ call = Idle
    /\ \E steps \in StepsRange, x \in X :
         \E e \in Up(EngineWith(x), dir, steps, 0) :
            Ends(CallWith("up", steps, x), e)

CallDownWith(X) ==
    /\ call = Idle
    /\ \E steps \in StepsRange, x \in X :
         \E e \in Down(EngineWith(x), dir, steps, 0) :
            Ends(CallWith("down", steps, x), e)

CallStatusWith(X) ==
    /\ call = Idle
    /\ \E x \in X :
         \E e \in Status(EngineWith(x), dir) :
            Ends(CallWith("status", 0, x), e)

NextExt ==
    \/ CallUpWith({NoExt} \cup ExtWrites)
    \/ CallDownWith({NoExt} \cup ExtWrites)
    \/ CallStatusWith({NoExt} \cup ExtWrites)
    \/ Return
    \/ NewIMigrator

SpecExt == InitFault /\ [][NextExt]_vars

\* ------------------------------------------------- setup over named files

\* The leading digit runs of the names in a directory (what FileVersionRegexp finds):
\* none, "1", "01", "2", "02" and "10".
DigitRuns == {<<>>, <<1>>, <<0, 1>>, <<2>>, <<0, 2>>, <<1, 0>>}

\* The value of a run of decimal digits.
RECURSIVE DigitsValue(_)
DigitsValue(ds) ==
    IF ds = <<>> THEN 0
    ELSE 10 * DigitsValue(SubSeq(ds, 1, Len(ds) - 1)) + ds[Len(ds)]

\* strconv.ParseInt(n, 10, 64) on a run of digits: an error on the empty run, else its
\* value (the runs here are within 64 bits).
ParseInt(ds) == [ok |-> ds # <<>>, n |-> DigitsValue(ds)]

\* A valid migration file whose name starts with the digit run ds.
NamedEntry(ds) == DirEntry(ParseInt(ds).ok, ParseInt(ds).n, TRUE, GoodFile)

NamedListings == UNION {[1..n -> {NamedEntry(ds) : ds \in DigitRuns}] : n \in 0..MaxFiles}

InitNames ==
    /\ dir \in NamedListings
    /\ Migrations = <<>>
    /\ setupDone = FALSE
    /\ table = {}
    /\ call = Idle
    /\ pre = {}
    /\ log = <<>>
    /\ out = <<>>
    /\ panicked = FALSE
    /\ schema = table
    /\ preSchema = {}
    /\ setupRan = FALSE
    /\ preSetup = Found(FALSE, FALSE, <<>>)
    /\ ParserIdle
    /\ CLIIdle

NextNames ==
    \/ CallStatusOver({NoFault})
    \/ Return
    \/ NewIMigrator

SpecNames == InitNames /\ [][NextNames]_vars

\* --------------------------------------------------------------- the parser

\* A file: its lines, whether the last one ends in a newline (eofNL), and the read that
\* fails with an error other than io.EOF (errAt, 0 for none).
Files ==
    {f \in [lines : UNION {[1..n -> LineTexts] : n \in 0..MaxLines},
            eofNL : BOOLEAN,
            errAt : 0..(MaxLines + 1)] :
        /\ f.lines = <<>> => f.eofNL
        /\ f.errAt <= Len(f.lines) + 1}

\* One iteration of the loop of Valid, as a step of the parser.
Valid ==
    /\ pc = "read"
    /\ LET s == ValidLoop(file, [pos |-> pos, upStart |-> upStart, dnStart |-> dnStart,
                                 Up |-> UpSQL, Dn |-> DnSQL, valid |-> valid, pc |-> pc])
       IN /\ pos' = s.pos
          /\ upStart' = s.upStart
          /\ dnStart' = s.dnStart
          /\ UpSQL' = s.Up
          /\ DnSQL' = s.Dn
          /\ valid' = s.valid
          /\ pc' = s.pc
    /\ UNCHANGED <<file, engineVars, cliVars>>

InitParse ==
    /\ file \in Files
    /\ pos = 0
    /\ upStart = FALSE
    /\ dnStart = FALSE
    /\ UpSQL = <<>>
    /\ DnSQL = <<>>
    /\ valid = FALSE
    /\ pc = "read"
    /\ dir = <<>>
    /\ Migrations = <<>>
    /\ setupDone = FALSE
    /\ table = {}
    /\ call = Idle
    /\ pre = {}
    /\ log = <<>>
    /\ out = <<>>
    /\ panicked = FALSE
    /\ schema = {}
    /\ preSchema = {}
    /\ setupRan = FALSE
    /\ preSetup = Found(FALSE, FALSE, <<>>)
    /\ CLIIdle

NextParse == Valid

SpecParse == InitParse /\ [][NextParse]_vars

\* ------------------------------------------------------------------ the CLI

Commands == {"up", "down", "redo", "rollback", "status", "create"}

\* The arguments of a command line: -steps=n, -version=n, and words.
Flag(name, n) == [kind |-> name, n |-> n, s |-> ""]

Word(s) == [kind |-> "word", n |-> 0, s |-> s]

\* A flag set in which redo has the defaults of up.
FlagSetRedoLikeUp(cmd) ==
    CASE cmd \in {"up", "down", "redo"} ->
             [flags |-> {"steps", "version"}, steps |-> -1, version |-> 0]
      [] cmd = "rollback" -> [flags |-> {"steps"}, steps |-> 1, version |-> 0]
      [] OTHER -> [flags |-> {}, steps |-> 0, version |-> 0]

\* The flags each command's FlagSet defines, with their defaults.
FlagSet(cmd) ==
    CASE cmd \in {"up", "down"} -> [flags |-> {"steps", "version"}, steps |-> -1, version |-> 0]
      [] cmd = "redo" -> [flags |-> {"steps", "version"}, steps |-> 1, version |-> 0]
      [] cmd = "rollback" -> [flags |-> {"steps"}, steps |-> 1, version |-> 0]
      [] OTHER -> [flags |-> {}, steps |-> 0, version |-> 0]

\* FlagSet.Parse: flags are read up to the first word; each sets its variable; a flag
\* the set does not define ends the process (flag.ExitOnError). rest is what Args() gives.
RECURSIVE Parse(_, _)
Parse(fs, args) ==
    IF args = <<>> \/ Head(args).kind = "word"
    THEN [ok |-> TRUE, steps |-> fs.steps, version |-> fs.version, rest |-> args]
    ELSE IF Head(args).kind \notin fs.flags
    THEN [ok |-> FALSE, steps |-> fs.steps, version |-> fs.version, rest |-> args]
    ELSE IF Head(args).kind = "steps"
    THEN Parse([fs EXCEPT !.steps = Head(args).n], Tail(args))
    ELSE Parse([fs EXCEPT !.version = Head(args).n], Tail(args))

\* FlagSet.Arg(0): the first argument left after the flags, "" when there is none.
Arg0(rest) == IF rest = <<>> THEN "" ELSE rest[1].s

\* A call of a Migrator method, as TestingMigrator records it.
Invocation(method, steps, version, name) ==
    [method |-> method, steps |-> steps, version |-> version, name |-> name]

\* The method call of each case of the switch.
Dispatch(cmd, p) ==
    CASE cmd \in {"up", "down", "redo"} -> Invocation(cmd, p.steps, p.version, "")
      [] cmd = "rollback" -> Invocation(cmd, p.steps, 0, "")
      [] cmd = "status" -> Invocation(cmd, 0, 0, "")
      [] OTHER -> Invocation(cmd, 0, 0, Arg0(p.rest))

\* CLI whose default case and missing-command test return to the caller.
CLIReturnsOnUsageError(args) ==
    IF Len(args) < 1 THEN [invoked |-> <<>>, exit |-> "return"]
    ELSE IF args[1].kind = "word" /\ args[1].s \in Commands
    THEN LET p == Parse(FlagSet(args[1].s), Tail(args))
         IN IF ~p.ok THEN [invoked |-> <<>>, exit |-> "flag"]
            ELSE [invoked |-> <<Dispatch(args[1].s, p)>>, exit |-> "return"]
    ELSE [invoked |-> <<>>, exit |-> "return"]

\* CLI on the arguments args (os.Args[1:]): the Migrator calls it makes and how it ends:
\* "return", "fatal" (log.Fatal(HelpText): HelpText is logged and the process exits with
\* status 1) or "flag" (the flag package reports the flag and exits with status 2).
CLI(args) ==
    IF Len(args) < 1 THEN [invoked |-> <<>>, exit |-> "fatal"]
    ELSE IF args[1].kind = "word" /\ args[1].s \in Commands
    THEN LET p == Parse(FlagSet(args[1].s), Tail(args))
         IN IF ~p.ok THEN [invoked |-> <<>>, exit |-> "flag"]
            ELSE [invoked |-> <<Dispatch(args[1].s, p)>>, exit |-> "return"]
    ELSE [invoked |-> <<>>, exit |-> "fatal"]

\* The program calls CLI.
CallCLI ==
    /\ exit = "run"
    /\ invoked' = CLI(osArgs).invoked
    /\ exit' = CLI(osArgs).exit
    /\ UNCHANGED <<osArgs, engineVars, parserVars>>

\* What follows the command word on the command lines: two values of -steps, one of
\* -version, and a word.
CLITokens == {Flag("steps", 0), Flag("steps", 2), Flag("version", 3), Word("new_table")}

\* The command lines: none, or a first argument (a command, another word, or a flag)
\* followed by at most MaxArgs arguments.
CommandLines ==
    {<<>>} \cup
    {<<first>> \o rest :
        first \in {Word(c) : c \in Commands \cup {"bogus"}} \cup {Flag("steps", 2)},
        rest \in UNION {[1..n -> CLITokens] : n \in 0..MaxArgs}}

InitCLI ==
    /\ osArgs \in CommandLines
    /\ invoked = <<>>
    /\ exit = "run"
    /\ dir = <<>>
    /\ Migrations = <<>>
    /\ setupDone = FALSE
    /\ table = {}
    /\ call = Idle
    /\ pre = {}
    /\ log = <<>>
    /\ out = <<>>
    /\ panicked = FALSE
    /\ schema = {}
    /\ preSchema = {}
    /\ setupRan = FALSE
    /\ preSetup = Found(FALSE, FALSE, <<>>)
    /\ ParserIdle

NextCLI == CallCLI

SpecCLI == InitCLI /\ [][NextCLI]_vars

\* ------------------------------------------------------- Create, then Valid

\* The first line of a generated file, "-- Migration:  <name>", by what the marker
\* patterns make of the name: a name without UP and DOWN ("a"), with UP ("U"), with
\* DOWN ("D"), with both ("B").
NameLines == {"a", "U", "D", "B"}

\* Template bodies as strings.TrimSpace leaves them: lines of SQL, none blank at either
\* end; the empty body too.
Templates == {<<>>, <<"a">>, <<"a", "b">>, <<"b", "a", "b">>}

\* The file Create writes for a name and the two templates: the header, the up marker,
\* the up body, the down marker and the down body with a blank line ("") between them,
\* the whole passed through strings.TrimSpace: nothing follows the last non-blank line,
\* not even its newline.
CreatedFile(nameLine, up, dn) ==
    [lines |-> <<nameLine, "a", "U", "">> \o up \o <<"", "D">>
               \o (IF dn = <<>> THEN <<>> ELSE <<"">> \o dn),
     eofNL |-> FALSE,
     errAt |-> 0]

\* Create writes a file, and setup then opens it for Valid.
Create ==
    /\ pc = "done"
    /\ file.lines = <<>>
    /\ \E nameLine \in NameLines, up \in Templates, dn \in Templates :
          file' = CreatedFile(nameLine, up, dn)
    /\ pos' = 0
    /\ upStart' = FALSE
    /\ dnStart' = FALSE
    /\ UpSQL' = <<>>
    /\ DnSQL' = <<>>
    /\ valid' = FALSE
    /\ pc' = "read"
    /\ UNCHANGED <<engineVars, cliVars>>

InitCreate ==
    /\ dir = <<>>
    /\ Migrations = <<>>
    /\ setupDone = FALSE
    /\ table = {}
    /\ call = Idle
    /\ pre = {}
    /\ log = <<>>
    /\ out = <<>>
    /\ panicked = FALSE
    /\ schema = {}
    /\ preSchema = {}
    /\ setupRan = FALSE
    /\ preSetup = Found(FALSE, FALSE, <<>>)
    /\ ParserIdle
    /\ CLIIdle

NextCreate ==
    \/ Create
    \/ Valid

SpecCreate == InitCreate /\ [][NextCreate]_vars

\* --------------------------------------------- what the claims are stated in

\* The versions of the registry.
RegVersions == {Migrations[i].Version : i \in DOMAIN Migrations}

Range(s) == {s[i] : i \in DOMAIN s}

Min(a, b) == IF a < b THEN a ELSE b

\* The set S of integers as a sequence, descending.
Descending(S) ==
    LET a == Ascending(S)
    IN [i \in DOMAIN a |-> a[Len(a) + 1 - i]]

IsStatement(ev) == ev.op # "create"

\* The migration statements of the call, in order, as <<statement, version>> pairs.
Trace ==
    LET l == SelectSeq(log, IsStatement)
    IN [i \in DOMAIN l |-> <<l[i].op, l[i].ver>>]

\* For each version of vs in turn, its SQL statement and then its tracking-row statement.
RECURSIVE Pairs(_, _, _)
Pairs(vs, sqlOp, rowOp) ==
    IF vs = <<>> THEN <<>>
    ELSE <<<<sqlOp, Head(vs)>>, <<rowOp, Head(vs)>>>> \o Pairs(Tail(vs), sqlOp, rowOp)

\* Every SQL the call ran is the SQL of a file of the registry with that version.
FromRegistry ==
    \A i \in DOMAIN log :
        log[i].op \in {"up", "dn"} =>
            \E j \in DOMAIN Migrations :
                Migrations[j] = [Version |-> log[i].ver, FileInfo |-> log[i].file]

\* The tracking table after the first i statements of the log, from the table t.
RECURSIVE TableAfter(_, _)
TableAfter(t, i) ==
    IF i = 0 THEN t
    ELSE LET before == TableAfter(t, i - 1)
         IN IF log[i].op = "insert" THEN before \cup {log[i].ver}
            ELSE IF log[i].op = "delete" THEN before \ {log[i].ver}
            ELSE before

Changing == call.op \in {"up", "down", "redo", "rollback"}

\* ------------------------------------------------------------------ claims

\* C1: in any sequence of Up, Down, Redo and Rollback calls, up-SQL runs and a row is
\* inserted for a version only while the version is absent from the tracking table, and
\* down-SQL runs and a row is deleted only while it is present; the table the statements
\* leave is the table the call ends with.
C1_OnlyAbsentUpOnlyPresentDown ==
    Changing =>
        /\ \A i \in DOMAIN log :
              LET t == TableAfter(pre, i - 1)
              IN /\ log[i].op \in {"up", "insert"} => log[i].ver \notin t
                 /\ log[i].op \in {"dn", "delete"} => log[i].ver \in t
        /\ TableAfter(pre, Len(log)) = table

\* A Redo over a registry in which two entries share a version, which reverted and then
\* applied that version.
C1_Witness ==
    /\ call.op = "redo"
    /\ \E i, j \in DOMAIN Migrations :
          /\ i # j
          /\ Migrations[i].Version = Migrations[j].Version
          /\ <<"dn", Migrations[i].Version>> \in Range(Trace)
          /\ <<"up", Migrations[i].Version>> \in Range(Trace)

\* C2: Up(K, 0), K >= 0, runs the up-SQL of exactly min(K, pendingCount) migrations, the
\* pending ones of lowest version, in strictly ascending version order, and records
\* exactly those versions (pending counted in versions: registry entries that share a
\* version are one pending version); Up(0, 0) applies nothing.
C2_UpStepsLowestPending ==
    (call.op = "up" /\ call.version = 0 /\ call.steps >= 0) =>
        LET P == RegVersions \ pre
            vs == SubSeq(Ascending(P), 1, Min(call.steps, Cardinality(P)))
        IN /\ Trace = Pairs(vs, "up", "insert")
           /\ table = pre \cup Range(vs)
           /\ FromRegistry

\* Up(2, 0) with three versions pending: the two lowest are applied, the third is not.
C2_Witness ==
    /\ call.op = "up" /\ call.version = 0 /\ call.steps = 2
    /\ Cardinality(RegVersions \ pre) = 3
    /\ Len(Trace) = 4
    /\ Cardinality(RegVersions \ table) = 1

\* C3: after Up(-1, 0) every version of the registry is recorded, whatever was applied
\* before; the pending versions are applied in ascending order and the applied ones are
\* skipped.
C3_UpAllRecordsEveryVersion ==
    (call.op = "up" /\ call.version = 0 /\ call.steps = -1) =>
        /\ RegVersions \subseteq table
        /\ table = pre \cup RegVersions
        /\ Trace = Pairs(Ascending(RegVersions \ pre), "up", "insert")
        /\ FromRegistry

\* Up(-1, 0) when the highest version was applied out of order and two lower ones were
\* pending.
C3_Witness ==
    /\ call.op = "up" /\ call.version = 0 /\ call.steps = -1
    /\ RegVersions = {1, 2, 3}
    /\ pre = {3}
    /\ table = {1, 2, 3}

\* C4: Up(steps, v), v # 0, ignores steps and changes at most v: when v is in the
\* registry and not recorded it runs v's up-SQL only and records v, whatever lower versions
\* are pending; otherwise it does nothing. No other version's status changes.
C4_UpVersionOnlyThatVersion ==
    (call.op = "up" /\ call.version # 0) =>
        IF call.version \in RegVersions /\ call.version \notin pre
        THEN /\ Trace = <<<<"up", call.version>>, <<"insert", call.version>>>>
             /\ table = pre \cup {call.version}
             /\ FromRegistry
        ELSE /\ Trace = <<>>
             /\ table = pre

\* Up(0, 3) with nothing applied and lower versions pending: only version 3 is applied.
C4_Witness ==
    /\ call.op = "up" /\ call.version = 3 /\ call.steps = 0
    /\ RegVersions = {1, 2, 3}
    /\ pre = {}
    /\ table = {3}

\* C6: Down(K, 0) and Rollback(K), K >= 0, revert exactly min(K, applied) migrations, the
\* applied ones of the registry with the highest versions, in strictly descending order,
\* each by its down-SQL and the removal of its row; pending versions are not touched, and
\* Rollback(1) reverts the single highest applied version (nothing when none is applied).
C6_DownStepsHighestApplied ==
    (call.op \in {"down", "rollback"} /\ call.version = 0 /\ call.steps >= 0) =>
        LET A == RegVersions \cap pre
            vs == SubSeq(Descending(A), 1, Min(call.steps, Cardinality(A)))
        IN /\ Trace = Pairs(vs, "dn", "delete")
           /\ table = pre \ Range(vs)
           /\ FromRegistry

\* Rollback(1) with versions 1 and 3 applied and version 2 pending: only 3 is reverted.
C6_Witness ==
    /\ call.op = "rollback" /\ call.steps = 1
    /\ RegVersions = {1, 2, 3}
    /\ pre = {1, 3}
    /\ table = {1}

\* C5: from an empty tracking table, Up(-1, 0) and then Down(-1, 0) leave the table
\* empty, having run the up-SQL of every version of the registry once in ascending order
\* and then the down-SQL of every version once in descending order.
C5_UpThenDownRoundTrip ==
    (call.op = "updown" /\ pre = {}) =>
        /\ table = {}
        /\ Trace = Pairs(Ascending(RegVersions), "up", "insert")
                     \o Pairs(Descending(RegVersions), "dn", "delete")
        /\ FromRegistry

\* The round trip over a registry of three versions.
C5_Witness ==
    /\ call.op = "updown"
    /\ pre = {}
    /\ RegVersions = {1, 2, 3}
    /\ Len(Trace) = 12
    /\ table = {}

\* C7: Redo(1, 0) runs the down-SQL and then the up-SQL of one and the same migration,
\* so the applied versions after it are those before it.
C7_RedoOneSameMigration ==
    (call.op = "redo" /\ call.steps = 1 /\ call.version = 0) =>
        /\ table = pre
        /\ \/ Trace = <<>>
           \/ \E i \in DOMAIN Migrations :
                 LET m == Migrations[i]
                 IN /\ Trace = Pairs(<<m.Version>>, "dn", "delete")
                                 \o Pairs(<<m.Version>>, "up", "insert")
                    /\ \A j \in DOMAIN log :
                          log[j].op \in {"up", "dn"} => log[j].file = m.FileInfo

\* C9: Status reports every version of the tracking table once as completed, also those
\* without a registry entry, in ascending order, then every registry migration whose
\* version is not in the table once as pending, in ascending order; nothing is reported
\* as both, no registry migration is left out, and the table is not changed.
C9_StatusCompletedThenPending ==
    call.op = "status" =>
        LET done == Ascending(table)
            k == Len(done)
            rest == (k + 1)..Len(out)
        IN /\ Len(out) >= k
           /\ \A i \in 1..k : out[i] = Line("Completed", done[i])
           /\ \A i \in rest : out[i].what = "Pending"
           /\ \A i, j \in rest : i < j => out[i].ver <= out[j].ver
           /\ \A v \in Versions :
                 Cardinality({i \in rest : out[i].ver = v})
                   = IF v \in table THEN 0
                     ELSE Cardinality({j \in DOMAIN Migrations : Migrations[j].Version = v})
           /\ table = pre
           /\ Trace = <<>>

\* Status with an applied version that has no registry entry, an applied version of the
\* registry and two pending ones listed out of order in the directory.
C9_Witness ==
    /\ call.op = "status"
    /\ table = {2, 3}
    /\ RegVersions = {1, 2}
    /\ dir[1].ver = 2 /\ dir[2].ver = 1
    /\ Len(out) = 3

\* The versions a Down(steps, version) pass reverts from the table t, in order.
DownVersions(t, steps, version) ==
    LET A == RegVersions \cap t
    IN IF version # 0 THEN (IF version \in A THEN <<version>> ELSE <<>>)
       ELSE IF steps = -1 THEN Descending(A)
       ELSE SubSeq(Descending(A), 1, Min(steps, Cardinality(A)))

\* The versions an Up(steps, version) pass applies to the table t, in order.
UpVersions(t, steps, version) ==
    LET P == RegVersions \ t
    IN IF version # 0 THEN (IF version \in P THEN <<version>> ELSE <<>>)
       ELSE IF steps = -1 THEN Ascending(P)
       ELSE SubSeq(Ascending(P), 1, Min(steps, Cardinality(P)))

Executions(vs, sqlOp) == [i \in DOMAIN vs |-> <<sqlOp, vs[i]>>]

RowOp(sqlOp) == IF sqlOp = "up" THEN "insert" ELSE "delete"

\* The statements that succeed when the executions X[i], X[i+1], ... run in turn under
\* the fault f: all of every execution before the f.at-th, of the f.at-th those before
\* the failure, and none after it.
RECURSIVE Until(_, _, _)
Until(X, i, f) ==
    IF i > Len(X) THEN <<>>
    ELSE LET sql == X[i]
             row == <<RowOp(sql[1]), sql[2]>>
         IN IF f.at = i
            THEN (IF f.kind = "sql" THEN <<>>
                  ELSE IF f.kind = "trackid" THEN <<sql, row>>
                  ELSE <<sql>>)
            ELSE <<sql, row>> \o Until(X, i + 1, f)

\* C8: Redo(steps, version) is Down(steps, version) followed by Up(steps, version): the
\* statements it runs are those of the Down call from the table it starts with, followed
\* by those of the Up call from the table Down leaves; every down statement precedes every
\* up statement; a failure ends the call where it occurs, so a failure in the Down pass
\* leaves the Up pass unrun; the table it leaves is the one those statements leave.
C8_RedoIsDownThenUp ==
    LET downs == Executions(DownVersions(pre, call.steps, call.version), "dn")
        ups(t) == Executions(UpVersions(t, call.steps, call.version), "up")
        mid == pre \ {downs[i][2] : i \in DOMAIN downs}
        both == downs \o ups(mid)
    IN /\ call.op = "down" =>
            /\ Trace = Until(downs, 1, call.fault)
            /\ panicked = (call.fault.at \in DOMAIN downs)
       /\ call.op = "up" =>
            /\ Trace = Until(ups(pre), 1, call.fault)
            /\ panicked = (call.fault.at \in DOMAIN ups(pre))
       /\ call.op = "redo" =>
            /\ Trace = Until(both, 1, call.fault)
            /\ panicked = (call.fault.at \in DOMAIN both)
            /\ \A i, j \in DOMAIN Trace :
                  (Trace[i][1] \in {"up", "insert"} /\ Trace[j][1] \in {"dn", "delete"}) => j < i
            /\ (call.fault.at \in DOMAIN downs) =>
                  \A i \in DOMAIN Trace : Trace[i][1] \in {"dn", "delete"}
            /\ table = TableAfter(pre, Len(log))
            /\ FromRegistry

\* Redo(-1, 0) with three versions applied whose second down-SQL fails: version 3 was
\* reverted, the call panicked, and no up-SQL ran although version 3 is now pending.
C8_Witness ==
    /\ call.op = "redo" /\ call.steps = -1 /\ call.version = 0
    /\ call.fault = [at |-> 2, kind |-> "sql"]
    /\ RegVersions = {1, 2, 3}
    /\ pre = {1, 2, 3}
    /\ panicked
    /\ Trace = <<<<"dn", 3>>, <<"delete", 3>>>>
    /\ table = {1, 2}

\* The first line of the file from line i on that satisfies match (0 when there is none).
RECURSIVE FirstUp(_, _)
FirstUp(lines, i) ==
    IF i > Len(lines) THEN 0
    ELSE IF UpKeyMatch(lines[i]) THEN i
    ELSE FirstUp(lines, i + 1)

RECURSIVE FirstDn(_, _)
FirstDn(lines, i) ==
    IF i > Len(lines) THEN 0
    ELSE IF DnKeyMatch(lines[i]) THEN i
    ELSE FirstDn(lines, i + 1)

\* The line of the up-marker and the line of the down-marker that follows it.
UpMarker == FirstUp(file.lines, 1)
DnMarker == IF UpMarker = 0 THEN 0 ELSE FirstDn(file.lines, UpMarker + 1)

\* C10: of a file with an up-marker line and, later, a down-marker line, the parser
\* yields as up-SQL exactly the lines between the two markers and as down-SQL exactly the
\* lines after the down-marker, in order and without the marker lines, also when the
\* last line of the file does not end in a newline.
C10_ParseYieldsAllLines ==
    (pc = "done" /\ file.errAt = 0 /\ DnMarker # 0) =>
        /\ valid
        /\ UpSQL = SubSeq(file.lines, UpMarker + 1, DnMarker - 1)
        /\ DnSQL = SubSeq(file.lines, DnMarker + 1, Len(file.lines))

\* The same of the files whose last line ends in a newline.
C10_ParseYieldsTerminatedLines ==
    (pc = "done" /\ file.errAt = 0 /\ DnMarker # 0 /\ file.eofNL) =>
        /\ valid
        /\ UpSQL = SubSeq(file.lines, UpMarker + 1, DnMarker - 1)
        /\ DnSQL = SubSeq(file.lines, DnMarker + 1, Len(file.lines))

\* The first n elements of the sequence s.
Take(s, n) == SubSeq(s, 1, n)

\* The last statement of the call (none: <<>>).
LastStatement == IF Trace = <<>> THEN <<>> ELSE Trace[Len(Trace)]

\* C13: in an Up call whose k-th migration execution fails at its up-SQL, the call aborts
\* there: the statements it ran are the up-SQL and the insert of the k-1 versions before
\* it and nothing else, so no row is inserted for the failing version, no later migration
\* is attempted, and the versions applied earlier in the pass stay recorded and in effect.
C13_UpAbortsOnFailedSQL ==
    (call.op = "up" /\ call.fault.kind = "sql") =>
        LET plan == UpVersions(pre, call.steps, call.version)
            k == call.fault.at
        IN k \in DOMAIN plan =>
              /\ panicked
              /\ Trace = Pairs(Take(plan, k - 1), "up", "insert")
              /\ table = pre \cup Range(Take(plan, k - 1))
              /\ plan[k] \notin table
              /\ schema = preSchema \cup Range(Take(plan, k - 1))

\* Up(-1, 0) with three versions pending whose second up-SQL failed: the first version
\* is recorded, the second and the third are not.
C13_Witness ==
    /\ call.op = "up" /\ call.steps = -1 /\ call.version = 0
    /\ call.fault = [at |-> 2, kind |-> "sql"]
    /\ panicked
    /\ pre = {}
    /\ Cardinality(RegVersions) = 3
    /\ Cardinality(table) = 1
    /\ Len(Trace) = 2

\* C14: a tracking row is inserted only directly after the up-SQL of its version has
\* run; when the k-th execution of an Up call fails at the insert, or at reading the
\* result handle of the up-SQL before it, the call aborts with that up-SQL as its last
\* statement, the up-SQL in effect and the version not recorded; an Up call that finds a
\* version in that condition and selects it runs its up-SQL again.
C14_FailedInsertLeavesUpSQLUntracked ==
    /\ \A i \in DOMAIN log :
          log[i].op = "insert" =>
              i > 1 /\ log[i - 1].op = "up" /\ log[i - 1].ver = log[i].ver
    /\ (call.op = "up" /\ call.fault.kind \in {"sqlid", "track"}) =>
          LET plan == UpVersions(pre, call.steps, call.version)
              k == call.fault.at
          IN k \in DOMAIN plan =>
                /\ panicked
                /\ LastStatement = <<"up", plan[k]>>
                /\ plan[k] \in schema
                /\ plan[k] \notin table
    /\ (call.op = "up" /\ call.fault = NoFault) =>
          \A v \in preSchema \ pre :
              v \in Range(UpVersions(pre, call.steps, call.version)) =>
                  <<"up", v>> \in Range(Trace)

\* An Up call that ran, a second time, the up-SQL of a version whose up-SQL was in
\* effect and whose row was missing when the call started.
C14_Witness ==
    /\ call.op = "up"
    /\ call.fault = NoFault
    /\ \E v \in preSchema \ pre : <<"up", v>> \in Range(Trace)

\* C18: a tracking row is deleted only directly after the down-SQL of its version has
\* run; when the k-th execution of a Down call fails at its down-SQL, the row is kept and
\* nothing after the k-1 reverted versions runs; when it fails at the delete, the call
\* aborts with that down-SQL as its last statement, the down-SQL in effect and the
\* version still recorded; a Down call that finds a version in that condition and selects
\* it runs its down-SQL again.
C18_FailedDeleteLeavesDownSQLTracked ==
    LET plan == DownVersions(pre, call.steps, call.version)
        k == call.fault.at
    IN /\ \A i \in DOMAIN log :
             log[i].op = "delete" =>
                 i > 1 /\ log[i - 1].op = "dn" /\ log[i - 1].ver = log[i].ver
       /\ (call.op \in {"down", "rollback"} /\ call.fault.kind = "sql" /\ k \in DOMAIN plan) =>
             /\ panicked
             /\ Trace = Pairs(Take(plan, k - 1), "dn", "delete")
             /\ table = pre \ Range(Take(plan, k - 1))
             /\ plan[k] \in table
       /\ (call.op \in {"down", "rollback"} /\ call.fault.kind = "track" /\ k \in DOMAIN plan) =>
             /\ panicked
             /\ LastStatement = <<"dn", plan[k]>>
             /\ plan[k] \notin schema
             /\ plan[k] \in table
       /\ (call.op \in {"down", "rollback"} /\ call.fault = NoFault) =>
             \A v \in pre \ preSchema :
                 v \in Range(plan) => <<"dn", v>> \in Range(Trace)

\* A Down call that ran, again, the down-SQL of a version whose down-SQL was in effect
\* and whose row was still there when the call started.
C18_Witness ==
    /\ call.op = "down"
    /\ call.fault = NoFault
    /\ \E v \in pre \ preSchema : <<"dn", v>> \in Range(Trace)

\* The call ran the scan of setup: the latch was not set and setup met no failure.
Scanned == call # Idle /\ ~preSetup.done /\ call.fault = NoFault

\* The lines of f that end in a newline: those ReadString returns without io.EOF.
Whole(f) == IF f.eofNL THEN f.lines ELSE Take(f.lines, Len(f.lines) - 1)

\* Reading f gets to the end of the stream: no read fails before it.
ReachesEnd(f) == f.errAt = 0 \/ f.errAt > Len(Whole(f)) + 1

\* Up to the end of the stream, an up-marker line and, after it, a down-marker line.
MarkersInOrder(f) ==
    /\ ReachesEnd(f)
    /\ \E i, j \in DOMAIN Whole(f) :
          i < j /\ UpKeyMatch(Whole(f)[i]) /\ DnKeyMatch(Whole(f)[j])

Registrable(d, i) == d[i].numeric /\ d[i].opens /\ MarkersInOrder(d[i].content)

\* C11: after a setup scan, a directory entry is in the registry if and only if its name
\* has a parsable leading digit run, it can be opened, and the lines read up to the end
\* of the stream (each ended by a newline) hold an up-marker line and, strictly after it, a
\* down-marker line; every other file is left out without a panic and the registry has
\* exactly one migration per such entry.
C11_RegisteredIffNumericOpenableMarked ==
    Scanned =>
        /\ ~panicked
        /\ \A i \in DOMAIN dir :
              (Migration(dir, i) \in Range(Migrations)) <=> Registrable(dir, i)
        /\ Len(Migrations) = Cardinality({i \in DOMAIN dir : Registrable(dir, i)})

\* A scan of a directory that holds a file without a down marker, a file whose only
\* down marker precedes its up marker and a file with both markers in order: the
\* registry holds the third only.
C11_Witness ==
    /\ Scanned
    /\ Len(dir) = 3
    /\ dir[1] = DirEntry(TRUE, 3, TRUE, [lines |-> <<"U", "a">>, eofNL |-> TRUE, errAt |-> 0])
    /\ dir[2] = DirEntry(TRUE, 3, TRUE, [lines |-> <<"D", "U", "a">>, eofNL |-> TRUE, errAt |-> 0])
    /\ dir[3] = DirEntry(TRUE, 1, TRUE, GoodFile)
    /\ Migrations = <<Migration(dir, 3)>>

\* C20: a setup scan skips an entry without a parsable leading digit run and an entry
\* that cannot be opened, without a panic, and registers every other entry that is a
\* valid migration file, wherever in the listing the skipped entries are; a setup whose
\* create-table statement, directory open or directory listing fails panics with nothing
\* registered, and setup panics for no other reason.
C20_BadEntriesAreSkipped ==
    /\ Scanned =>
          /\ ~panicked
          /\ \A i \in DOMAIN dir :
                /\ (~dir[i].numeric \/ ~dir[i].opens) =>
                       Migration(dir, i) \notin Range(Migrations)
                /\ (dir[i].numeric /\ dir[i].opens /\ ValidResult(dir[i].content)) =>
                       Migration(dir, i) \in Range(Migrations)
    /\ (call # Idle /\ ~preSetup.done /\ call.fault \in SetupFaults) =>
          /\ panicked
          /\ Migrations = <<>>
          /\ ~setupDone
          /\ out = <<>>
    /\ (call.op = "status" /\ panicked) => call.fault \in SetupFaults

\* A scan of a listing that starts with a name without digits and a file that cannot be
\* opened and ends with a valid migration file, which is registered.
C20_Witness ==
    /\ Scanned
    /\ Len(dir) = 3
    /\ ~dir[1].numeric
    /\ dir[2].numeric /\ ~dir[2].opens
    /\ Migrations = <<Migration(dir, 3)>>

\* The call ran create table.
CreatedTable == \E i \in DOMAIN log : log[i].op = "create"

\* C12: once a run of setup on an engine has got to its end without a panic, no later
\* call on that engine issues create table or changes the members of the registry,
\* whatever the directory holds and however it has changed since.
C12_SetupRunsOnce ==
    (call # Idle /\ preSetup.ran) =>
        /\ ~CreatedTable
        /\ Range(Migrations) = preSetup.M

\* C17 as stated: the latch is set only when the scan registered a valid migration
\* file, and a call on an engine whose earlier setup registered none runs setup again.
C17_LatchOnlyWithValidFile ==
    /\ Scanned => (setupDone => Migrations # <<>>)
    /\ (call # Idle /\ call.fault = NoFault /\ preSetup.ran /\ preSetup.M = {}) =>
          CreatedTable

\* C17: the scan sets the latch if and only if the listing holds an entry with a
\* parsable leading digit run that can be opened, valid migration file or not; a call on
\* an engine whose earlier setup left the latch unset runs the full setup again, create
\* table first; a call on an engine whose latch is set runs no create table and keeps
\* the registry's members, also when the registry is empty.
C17_LatchIffNumericOpenableEntry ==
    /\ Scanned => (setupDone <=> \E i \in DOMAIN dir : dir[i].numeric /\ dir[i].opens)
    /\ (call # Idle /\ call.fault = NoFault /\ preSetup.ran /\ ~preSetup.done) =>
          log # <<>> /\ log[1].op = "create"
    /\ (call # Idle /\ preSetup.done) =>
          /\ ~CreatedTable
          /\ Range(Migrations) = preSetup.M

\* A call on an engine whose setup found only a parse-invalid file with a numeric
\* prefix: the latch was set, setup does not run again, and the registry stays empty
\* although the directory now holds a valid migration file.
C17_Witness ==
    /\ call # Idle
    /\ preSetup.done
    /\ preSetup.M = {}
    /\ ~CreatedTable
    /\ Migrations = <<>>
    /\ \E i \in DOMAIN dir : dir[i] = Entry(1)

\* The other process made its write op of version v during the call.
Wrote(op, v) == \E p \in DOMAIN log : log[p].op = op /\ log[p].ver = v

\* The place of version v in the pass (the registry as the pass sorted it).
PlaceOf(v) == CHOOSE j \in DOMAIN Migrations : Migrations[j].Version = v

\* The other process wrote before the pass checked version v.
BeforeCheck(v) ==
    \/ call.ext.at < PlaceOf(v)
    \/ call.ext.at = PlaceOf(v) /\ call.ext.phase = "check"

IsUpSQL(ev) == ev.op = "up"

IsDnSQL(ev) == ev.op = "dn"

\* The versions whose up-SQL (down-SQL) the call ran, in order.
UpsRun == [i \in DOMAIN SelectSeq(log, IsUpSQL) |-> SelectSeq(log, IsUpSQL)[i].ver]

DnsRun == [i \in DOMAIN SelectSeq(log, IsDnSQL) |-> SelectSeq(log, IsDnSQL)[i].ver]

\* The first steps elements of s, all of them when steps is -1.
Capped(s, steps) == IF steps = -1 THEN s ELSE Take(s, Min(steps, Len(s)))

\* C19: each applied-check of a pass reads the table as it is then. When another process
\* inserts a pending version v after an Up pass has started and before the pass checks v,
\* the pass does not run v's up-SQL and applies the versions it would apply were v not
\* pending: v does not count toward steps. When another process deletes an applied version
\* v before a Down pass checks it, the pass does not run v's down-SQL and reverts the
\* versions it would revert were v not applied. Status prints no Pending line for a
\* version inserted before its check, and a Pending line for one deleted before it.
C19_ChecksReadCurrentTable ==
    LET v == call.ext.ver
    IN /\ (/\ call.op = "up"
           /\ Wrote("xinsert", v)
           /\ v \in RegVersions \ pre
           /\ BeforeCheck(v)) =>
              /\ ~panicked
              /\ UpsRun = Capped(Ascending((RegVersions \ pre) \ {v}), call.steps)
              /\ table = (pre \cup {v}) \cup Range(UpsRun)
       /\ (/\ call.op = "down"
           /\ Wrote("xdelete", v)
           /\ v \in RegVersions \cap pre
           /\ BeforeCheck(v)) =>
              /\ ~panicked
              /\ DnsRun = Capped(Descending((RegVersions \cap pre) \ {v}), call.steps)
              /\ table = (pre \ {v}) \ Range(DnsRun)
       /\ (/\ call.op = "status"
           /\ Wrote("xinsert", v)
           /\ v \in RegVersions \ pre
           /\ BeforeCheck(v)) =>
              Line("Pending", v) \notin Range(out)
       /\ (/\ call.op = "status"
           /\ Wrote("xdelete", v)
           /\ v \in RegVersions \cap pre
           /\ BeforeCheck(v)) =>
              Line("Pending", v) \in Range(out)

\* Up(2, 0) with versions 1, 2 and 3 pending, and version 2 inserted by another process
\* after version 1 was applied and before the pass checked version 2: the pass applied
\* 1 and 3.
C19_Witness ==
    /\ call.op = "up"
    /\ call.steps = 2
    /\ pre = {}
    /\ RegVersions = {1, 2, 3}
    /\ call.ext = [at |-> 2, phase |-> "check", op |-> "insert", ver |-> 2]
    /\ Wrote("xinsert", 2)
    /\ UpsRun = <<1, 3>>
    /\ table = {1, 2, 3}

\* The flags at the head of the arguments args, up to the first word.
RECURSIVE LeadingFlags(_)
LeadingFlags(args) ==
    IF args = <<>> \/ Head(args).kind = "word" THEN <<>>
    ELSE <<Head(args)>> \o LeadingFlags(Tail(args))

\* The value the flags fl give the flag name: that of the last one, default without one.
FlagValue(fl, name, default) ==
    LET I == {i \in DOMAIN fl : fl[i].kind = name}
    IN IF I = {} THEN default
       ELSE fl[CHOOSE i \in I : \A j \in I : j <= i].n

\* The command line names a command.
Recognized == osArgs # <<>> /\ osArgs[1] \in {Word(c) : c \in Commands}

\* C15: on a command line whose first word is one of up, down, redo, rollback, status
\* and create, and whose flags are flags of that command, CLI calls the method of that
\* name once and no other, and returns: Up, Down and Redo with the values of -steps and
\* -version, defaults (-1, 0), (-1, 0) and (1, 0); Rollback with the value of -steps,
\* default 1; Create with the first argument after the flags as name; Status with
\* nothing, whatever arguments follow.
C15_CommandInvokesItsMethod ==
    (exit # "run" /\ Recognized) =>
        LET cmd == osArgs[1].s
            rest == Tail(osArgs)
            fl == LeadingFlags(rest)
            words == SubSeq(rest, Len(fl) + 1, Len(rest))
            allowed == CASE cmd \in {"up", "down", "redo"} -> {"steps", "version"}
                         [] cmd = "rollback" -> {"steps"}
                         [] OTHER -> {}
            steps == CASE cmd \in {"up", "down"} -> FlagValue(fl, "steps", -1)
                       [] cmd \in {"redo", "rollback"} -> FlagValue(fl, "steps", 1)
                       [] OTHER -> 0
            version == IF cmd \in {"up", "down", "redo"} THEN FlagValue(fl, "version", 0)
                       ELSE 0
            name == IF cmd = "create" /\ words # <<>> THEN words[1].s ELSE ""
        IN (\A i \in DOMAIN fl : fl[i].kind \in allowed) =>
               /\ exit = "return"
               /\ invoked = <<Invocation(cmd, steps, version, name)>>

\* "redo" alone on the command line: Redo(1, 0) was called.
C15_Witness ==
    /\ osArgs = <<Word("redo")>>
    /\ exit = "return"
    /\ invoked = <<Invocation("redo", 1, 0, "")>>

\* C16 as stated: with no command or an unrecognized one, CLI calls no method and
\* comes back to its caller: the process is not ended.
C16_UsageErrorReturned ==
    (exit # "run" /\ ~Recognized) =>
        /\ invoked = <<>>
        /\ exit = "return"

\* C16: with no command or an unrecognized one, CLI calls no method, logs HelpText and
\* ends the process (log.Fatal); it does not come back to its caller.
C16_UsageErrorIsFatal ==
    (exit # "run" /\ ~Recognized) =>
        /\ invoked = <<>>
        /\ exit = "fatal"

\* CLI on a command line that starts with the word "bogus".
C16_Witness ==
    /\ osArgs # <<>>
    /\ osArgs[1] = Word("bogus")
    /\ exit = "fatal"
    /\ invoked = <<>>

\* The lines the parser has read so far (the read that ended the loop returned none).
LinesRead == Take(file.lines, IF pc = "done" THEN pos - 1 ELSE pos)

\* Among the lines read so far: the first line that matches the up pattern, and the
\* first line after it that matches the down pattern (0 when there is none).
UpAt == FirstUp(LinesRead, 1)

DnAt == IF UpAt = 0 THEN 0 ELSE FirstDn(LinesRead, UpAt + 1)

\* C21: at every step of the parser the two flags and the two bodies are what the lines
\* read so far make them: upStart is set from the first line that matches the up pattern
\* on, dnStart from the first line after it that matches the down pattern on (so neither
\* is ever reset, and dnStart is never set without upStart); those two lines are in
\* neither body; a line before the up marker, a down-marker line included, is discarded;
\* the up-SQL is every line between the two markers, lines that match the up pattern
\* included; the down-SQL is every line after the down marker, whatever it matches; a
\* line that matches both patterns is the up marker when none has been seen and the down
\* marker when only the up marker has; no line is in both bodies.
C21_MarkersConsumedOnce ==
    LET n == Len(LinesRead)
    IN /\ upStart = (UpAt # 0)
       /\ dnStart = (DnAt # 0)
       /\ dnStart => upStart
       /\ UpSQL = IF UpAt = 0 THEN <<>>
                  ELSE SubSeq(LinesRead, UpAt + 1, IF DnAt = 0 THEN n ELSE DnAt - 1)
       /\ DnSQL = IF DnAt = 0 THEN <<>> ELSE SubSeq(LinesRead, DnAt + 1, n)
       /\ Len(UpSQL) + Len(DnSQL) <= n

\* The file "B", "U", "B", "D" read to its end: the first line that matches both
\* patterns was the up marker, the second the down marker; the up-pattern line between
\* them is the up-SQL and the down-pattern line after them is the down-SQL.
C21_Witness ==
    /\ pc = "done"
    /\ file = [lines |-> <<"B", "U", "B", "D">>, eofNL |-> TRUE, errAt |-> 0]
    /\ upStart /\ dnStart
    /\ UpSQL = <<"U">>
    /\ DnSQL = <<"D">>

\* C22: no two migrations of the registry have the same version, whatever the directory
\* holds.
C22_RegistryVersionsDistinct ==
    \A i, j \in DOMAIN Migrations :
        i # j => Migrations[i].Version # Migrations[j].Version

\* The sequence t is in the sequence s, in order.
RECURSIVE Within(_, _)
Within(t, s) ==
    IF t = <<>> THEN TRUE
    ELSE IF s = <<>> THEN FALSE
    ELSE IF Head(t) = Head(s) THEN Within(Tail(t), Tail(s))
    ELSE Within(t, Tail(s))

\* C23: the file Create writes for any name and any two template bodies, read to its
\* end by Valid, is valid, its up-SQL holds every line of the up body in order and its
\* down-SQL holds every line of the down body in order, the last one included.
C23_CreateThenParseRoundTrips ==
    \A nameLine \in NameLines, up \in Templates, dn \in Templates :
        (pc = "done" /\ file = CreatedFile(nameLine, up, dn)) =>
            /\ valid
            /\ Within(up, UpSQL)
            /\ Within(dn, DnSQL)

\* C24: in every state between the steps of the operations on an engine, a registry
\* that is not empty has the latch set; however often setup has run again while the
\* directory held no usable entry and files were written to it, every migration of the
\* registry is an entry of the directory and no entry is in the registry twice.
C24_NonEmptyRegistryIsLatched ==
    /\ Migrations # <<>> => setupDone
    /\ \A i \in DOMAIN Migrations :
          /\ Migrations[i].FileInfo \in DOMAIN dir
          /\ Migrations[i] = Migration(dir, Migrations[i].FileInfo)
    /\ \A i, j \in DOMAIN Migrations : i # j => Migrations[i] # Migrations[j]

\* A call on an engine whose earlier setup found no usable entry: setup ran again over
\* the directory, to which two valid files had been written, and registered both.
C24_Witness ==
    /\ call # Idle
    /\ preSetup.ran
    /\ ~preSetup.done
    /\ CreatedTable
    /\ setupDone
    /\ Len(Migrations) = 2

====
